---- MODULE Spec2Model ----
(***************************************************************************)
(* Model of backend/datasets/fraud/train_fraud_model.py: the offline       *)
(* training pipeline main() and the functions it calls, one action per     *)
(* call of main().                                                         *)
(*                                                                         *)
(* Numbers.  Integer columns (amount, hour, the flags, the encoded         *)
(* categories, is_fraud) are held as integers.  Real-valued columns (the   *)
(* two risk scores and every column derived with log1p, sqrt, sin, cos,    *)
(* product, average, max) are held in hundredths, rounded.  A fraction is  *)
(* a pair <<numerator, denominator>> in lowest terms.                       *)
(*                                                                         *)
(* Library calls.  pandas, scikit-learn, joblib, skl2onnx and onnx are     *)
(* modelled by their documented behaviour: which exceptions they raise and *)
(* what they return.  The fitted forest is opaque: its predictions are any *)
(* labels among the classes it was trained on.  The shuffled stratified    *)
(* split is any test subset of the size the library computes.              *)
(***************************************************************************)
EXTENDS Integers, Sequences, FiniteSets, TLC

VARIABLES
    ONNX_AVAILABLE,   \* module-level flag set by the guarded import
    fileExists,       \* whether DATA_FILE exists
    csv,              \* the content of DATA_FILE: [cols, rows]
    pc,               \* the call of main() about to run, "done" or "aborted"
    done,             \* the calls of main() that have returned, in order
    err,              \* the exception that ended the run: [step, kind]
    df,               \* the table main() holds: [cols, rows]
    encoders,         \* column name -> classes_ of its fitted LabelEncoder
    feature_columns,  \* the list prepare_features returned
    X,                \* feature matrix: one sequence of values per row
    y,                \* target vector
    train,            \* row indices of the training partition
    test,             \* row indices of the held-out partition
    scaler,           \* the StandardScaler object
    model,            \* the RandomForestClassifier object
    y_pred,           \* predictions evaluate_model obtained
    metrics,          \* the dict evaluate_model returned
    files,            \* files this run wrote under MODELS_DIR: name -> content
    onnx_success,     \* the value convert_to_onnx returned
    onnx              \* how far convert_to_onnx got

vars == <<ONNX_AVAILABLE, fileExists, csv, pc, done, err, df, encoders,
          feature_columns, X, y, train, test, scaler, model, y_pred, metrics,
          files, onnx_success, onnx>>

(***************************************************************************)
(* Bounds of the model                                                     *)
(***************************************************************************)
\* rows of the dataset in the pipeline specification
NRows == 6
\* rows of the dataset in the feature-engineering specification
FeatRows == 2
\* largest number of required columns the input file lacks
MaxMissing == 2

(***************************************************************************)
(* Configuration (module constants of the script)                          *)
(***************************************************************************)
\* TEST_SIZE = 0.2, as a percentage
TEST_SIZE_PCT == 20
N_ESTIMATORS == 150
MAX_DEPTH == 15
MIN_SAMPLES_SPLIT == 20
MIN_SAMPLES_LEAF == 10

RequiredColumns ==
    {"amount", "hour", "transaction_type", "merchant_category", "country",
     "device_risk_score", "ip_risk_score", "is_fraud"}

CategoricalColumns == <<"transaction_type", "merchant_category", "country">>

\* The calls of main(), in order.
Steps ==
    <<"create_dirs", "load_and_explore_data", "feature_engineering",
      "prepare_features", "train_test_split", "scaler_fit_transform",
      "scaler_transform", "train_model", "evaluate_model",
      "save_scaler_and_model", "convert_to_onnx", "summary">>

StepIndex(s) == CHOOSE i \in 1..Len(Steps) : Steps[i] = s

StepAfter(s) ==
    IF StepIndex(s) = Len(Steps) THEN "done" ELSE Steps[StepIndex(s) + 1]

EmptyTable == [cols |-> {}, rows |-> <<>>]

NoError == [step |-> "", kind |-> ""]

(***************************************************************************)
(* Helpers                                                                 *)
(***************************************************************************)
Range(s) == {s[i] : i \in DOMAIN s}

RECURSIVE SumColumn(_, _, _, _)
\* the sum of Xm[i][k] over the rows i <= m of Xm that are in idx
SumColumn(Xm, idx, k, m) ==
    IF m = 0 THEN 0
    ELSE (IF m \in idx THEN Xm[m][k] ELSE 0) + SumColumn(Xm, idx, k, m - 1)

RECURSIVE SumSquares(_, _, _, _)
\* the sum of Xm[i][k]^2 over the rows i <= m of Xm that are in idx
SumSquares(Xm, idx, k, m) ==
    IF m = 0 THEN 0
    ELSE (IF m \in idx THEN Xm[m][k] * Xm[m][k] ELSE 0) + SumSquares(Xm, idx, k, m - 1)

Max2(a, b) == IF a >= b THEN a ELSE b

Abs(a) == IF a < 0 THEN 0 - a ELSE a

RECURSIVE Gcd(_, _)
Gcd(a, b) == IF b = 0 THEN a ELSE Gcd(b, a % b)

\* the fraction a / b (b > 0) in lowest terms
Frac(a, b) == LET g == Gcd(Abs(a), b) IN <<a \div g, b \div g>>

(***************************************************************************)
(* Fixed-point tables of the real-valued transforms (hundredths)           *)
(***************************************************************************)
\* round(100 * log1p(a)) for a = 0, 1, 2, ...
Log1pTable == <<0, 69, 110, 139, 161, 179>>
\* round(100 * sqrt(a)) for a = 0, 1, 2, ...
SqrtTable == <<0, 100, 141, 173, 200, 224>>
\* round(100 * sin(2 pi h / 24)) for h = 0 .. 23
SinTable ==
    <<0, 26, 50, 71, 87, 97, 100, 97, 87, 71, 50, 26,
      0, -26, -50, -71, -87, -97, -100, -97, -87, -71, -50, -26>>
\* round(100 * cos(2 pi h / 24)) for h = 0 .. 23
CosTable ==
    <<100, 97, 87, 71, 50, 26, 0, -26, -50, -71, -87, -97,
      -100, -97, -87, -71, -50, -26, 0, 26, 50, 71, 87, 97>>

Log1p(a) == Log1pTable[a + 1]
Sqrt(a) == SqrtTable[a + 1]
\* sin and cos have period 24 in the hour
HourSin(h) == SinTable[(h % 24) + 1]
HourCos(h) == CosTable[(h % 24) + 1]

(***************************************************************************)
(* feature_engineering: the flags                                          *)
(***************************************************************************)
IsNight_Strict(h) == IF (h >= 0 /\ h < 6) \/ h >= 22 THEN 1 ELSE 0

\* ((hour >= 0) & (hour <= 6) | (hour >= 22)).astype(int): & binds tighter
IsNight(h) == IF (h >= 0 /\ h <= 6) \/ h >= 22 THEN 1 ELSE 0

\* ((hour >= 9) & (hour <= 17)).astype(int)
IsBusinessHours(h) == IF h >= 9 /\ h <= 17 THEN 1 ELSE 0

(***************************************************************************)
(* LabelEncoder (scikit-learn): classes_ is the sorted array of the        *)
(* distinct values of the fitted column; transform returns the index of a  *)
(* value in classes_ and raises ValueError for a value that is not there.  *)
(***************************************************************************)
\* every category string of the model, in lexicographic order
Alphabet == <<"ATM", "FOOD", "FR", "ONLINE", "POS", "TN", "TRAVEL">>

Rank(s) == CHOOSE i \in 1..Len(Alphabet) : Alphabet[i] = s

RECURSIVE SortSet(_)
\* the strings of S in lexicographic order
SortSet(S) ==
    IF S = {} THEN <<>>
    ELSE LET m == CHOOSE x \in S : \A z \in S : Rank(x) <= Rank(z)
         IN <<m>> \o SortSet(S \ {m})

LabelEncoderFit_NoUnique(column) == column

\* le.fit: classes_ = np.unique(column)
LabelEncoderFit(column) == SortSet(Range(column))

\* le.transform of one value
LabelEncoderTransform(classes, s) ==
    IF \E i \in 1..Len(classes) : classes[i] = s
    THEN [raised |-> "", value |-> (CHOOSE i \in 1..Len(classes) : classes[i] = s) - 1]
    ELSE [raised |-> "ValueError", value |-> -1]

\* le.inverse_transform of one index
LabelEncoderInverse(classes, k) == classes[k + 1]

Column(table, c) == [i \in 1..Len(table.rows) |-> table.rows[i][c]]

\* the encoders dict built by the loop over the three categorical columns
FitEncoders(table) ==
    [c \in Range(CategoricalColumns) |-> LabelEncoderFit(Column(table, c))]

EncoderFile(c) == "encoder_" \o c \o ".pkl"

EncoderFiles == {EncoderFile(c) : c \in Range(CategoricalColumns)}

\* the files after joblib.dump of path with content
Write(fs, path, content) ==
    [p \in DOMAIN fs \cup {path} |-> IF p = path THEN content ELSE fs[p]]

SaveEncoders_Deferred(fs, encs) == fs

\* for name, encoder in encoders.items(): joblib.dump(encoder, ...)
SaveEncoders(fs, encs) ==
    [p \in DOMAIN fs \cup EncoderFiles |->
        IF \E c \in DOMAIN encs : EncoderFile(c) = p
        THEN encs[CHOOSE c \in DOMAIN encs : EncoderFile(c) = p]
        ELSE fs[p]]

\* the columns feature_engineering adds to one row
EngineeredRow(row, encs) ==
    ("amount_log" :> Log1p(row["amount"])) @@
    ("amount_sqrt" :> Sqrt(row["amount"])) @@
    ("hour_sin" :> HourSin(row["hour"])) @@
    ("hour_cos" :> HourCos(row["hour"])) @@
    ("is_night" :> IsNight(row["hour"])) @@
    ("is_business_hours" :> IsBusinessHours(row["hour"])) @@
    ("transaction_type_encoded" :>
        LabelEncoderTransform(encs["transaction_type"], row["transaction_type"]).value) @@
    ("merchant_category_encoded" :>
        LabelEncoderTransform(encs["merchant_category"], row["merchant_category"]).value) @@
    ("country_encoded" :>
        LabelEncoderTransform(encs["country"], row["country"]).value) @@
    ("risk_score_product" :> (row["device_risk_score"] * row["ip_risk_score"]) \div 100) @@
    ("risk_score_avg" :> (row["device_risk_score"] + row["ip_risk_score"]) \div 2) @@
    ("risk_score_max" :> Max2(row["device_risk_score"], row["ip_risk_score"])) @@
    row

EngineeredColumns ==
    {"amount_log", "amount_sqrt", "hour_sin", "hour_cos", "is_night",
     "is_business_hours", "transaction_type_encoded",
     "merchant_category_encoded", "country_encoded", "risk_score_product",
     "risk_score_avg", "risk_score_max"}

\* the columns feature_engineering reads before it saves the encoders
ReadBeforeEncoderSave ==
    {"amount", "hour", "transaction_type", "merchant_category", "country"}

\* the columns feature_engineering reads after it saved the encoders
ReadAfterEncoderSave == {"device_risk_score", "ip_risk_score"}

(***************************************************************************)
(* prepare_features                                                        *)
(***************************************************************************)
FeatureColumns ==
    <<"amount", "amount_log", "amount_sqrt",
      "hour", "hour_sin", "hour_cos", "is_night", "is_business_hours",
      "transaction_type_encoded", "merchant_category_encoded", "country_encoded",
      "device_risk_score", "ip_risk_score", "risk_score_product",
      "risk_score_avg", "risk_score_max">>

\* df[feature_columns].values
FeatureMatrix(table, cols) ==
    [i \in 1..Len(table.rows) |-> [k \in 1..Len(cols) |-> table.rows[i][cols[k]]]]

(***************************************************************************)
(* train_test_split(X, y, test_size=TEST_SIZE, stratify=y)                 *)
(***************************************************************************)
\* n_test = ceil(test_size * n_samples)
NTest(n) == (n * TEST_SIZE_PCT + 99) \div 100

\* n_train = n_samples - n_test
NTrain(n) == n - NTest(n)

Classes(yv, idx) == {yv[i] : i \in idx}

ClassCount(yv, c) == Cardinality({i \in DOMAIN yv : yv[i] = c})

\* the ValueErrors of the stratified shuffle split
SplitRaises(yv) ==
    LET n == Len(yv)
        cls == Classes(yv, DOMAIN yv)
    IN \/ n = 0
       \/ NTrain(n) = 0
       \/ \E c \in cls : ClassCount(yv, c) < 2
       \/ NTrain(n) < Cardinality(cls)
       \/ NTest(n) < Cardinality(cls)

(***************************************************************************)
(* StandardScaler (scikit-learn).  mean_[k] is the mean of column k of the *)
(* fitted rows and var_[k] its population variance, both as fractions;     *)
(* scale_[k] holds the square of the scale: var_[k], or 1 when the         *)
(* variance is zero.                                                       *)
(***************************************************************************)
NewScaler == [fitted |-> FALSE, mean_ |-> <<>>, var_ |-> <<>>, scale_ |-> <<>>]

FitParams(Xm, idx) ==
    LET n == Cardinality(idx)
        width == IF Len(Xm) = 0 THEN 0 ELSE Len(Xm[1])
        sum == [k \in 1..width |-> SumColumn(Xm, idx, k, Len(Xm))]
        sumsq == [k \in 1..width |-> SumSquares(Xm, idx, k, Len(Xm))]
        var == [k \in 1..width |-> Frac(n * sumsq[k] - sum[k] * sum[k], n * n)]
    IN [fitted |-> TRUE,
        mean_ |-> [k \in 1..width |-> Frac(sum[k], n)],
        var_ |-> var,
        scale_ |-> [k \in 1..width |-> IF var[k][1] = 0 THEN <<1, 1>> ELSE var[k]]]

\* the scaler after scaler.fit_transform(rows idx of Xm)
StandardScalerFitTransform(sc, Xm, idx) == FitParams(Xm, idx)

StandardScalerTransform_Refit(sc, Xm, idx) == FitParams(Xm, idx)

\* the scaler after scaler.transform(rows idx of Xm): it only reads mean_, scale_
StandardScalerTransform(sc, Xm, idx) == sc

(***************************************************************************)
(* evaluate_model                                                          *)
(***************************************************************************)
ZeroMatrix == [i \in {0, 1} |-> [j \in {0, 1} |-> 0]]

RECURSIVE Tally(_, _, _, _)
\* confusion_matrix: one count added per sample, at [true label][predicted label]
Tally(yv, pred, idx, cm) ==
    IF idx = {} THEN cm
    ELSE LET t == CHOOSE i \in idx : TRUE
         IN Tally(yv, pred, idx \ {t},
                  [cm EXCEPT ![yv[t]][pred[t]] = @ + 1])

ConfusionMatrix(yv, pred, idx) == Tally(yv, pred, idx, ZeroMatrix)

EvaluatedRows_Train(trainIdx, testIdx) == trainIdx

\* the rows evaluate_model predicts and scores: X_test, y_test
EvaluatedRows(trainIdx, testIdx) == testIdx

\* the dict evaluate_model returns (accuracy as a fraction; the real-valued
\* outputs of the forest, roc_auc and the importances, are not represented)
Metrics(yv, pred, idx) ==
    [test_accuracy |-> <<Cardinality({t \in idx : yv[t] = pred[t]}), Cardinality(idx)>>,
     confusion_matrix |-> ConfusionMatrix(yv, pred, idx)]

NoMetrics == [test_accuracy |-> <<0, 0>>, confusion_matrix |-> ZeroMatrix]

(***************************************************************************)
(* save_scaler_and_model                                                   *)
(***************************************************************************)
ScalerParams(sc, cols) ==
    [means |-> sc.mean_, stds |-> sc.scale_, n_features |-> Len(cols)]

Metadata_Reversed(cols, m) ==
    [n_features |-> Len(cols),
     feature_names |-> [k \in 1..Len(cols) |-> cols[Len(cols) + 1 - k]],
     metrics |-> m,
     model_config |-> [n_estimators |-> N_ESTIMATORS, max_depth |-> MAX_DEPTH,
                       min_samples_split |-> MIN_SAMPLES_SPLIT,
                       min_samples_leaf |-> MIN_SAMPLES_LEAF]]

Metadata(cols, m) ==
    [n_features |-> Len(cols),
     feature_names |-> cols,
     metrics |-> m,
     model_config |-> [n_estimators |-> N_ESTIMATORS, max_depth |-> MAX_DEPTH,
                       min_samples_split |-> MIN_SAMPLES_SPLIT,
                       min_samples_leaf |-> MIN_SAMPLES_LEAF]]

ExporterFiles ==
    {"scaler.pkl", "fraud_model.pkl", "scaler_params.json", "model_metadata.json"}

(***************************************************************************)
(* convert_to_onnx                                                         *)
(***************************************************************************)
\* the calls inside the try block that can raise, in order
OnnxCalls == <<"convert_sklearn", "open", "write", "load", "check_model">>

OnnxCallIndex(c) == CHOOSE i \in 1..Len(OnnxCalls) : OnnxCalls[i] = c

\* whether call c completed when the first call to raise is failAt ("none": no call raises)
Completed(c, failAt) ==
    failAt = "none" \/ OnnxCallIndex(c) < OnnxCallIndex(failAt)

NoOnnx == [converted |-> FALSE, written |-> FALSE, loaded |-> FALSE, checked |-> FALSE]

OnnxProgress(failAt) ==
    [converted |-> Completed("convert_sklearn", failAt),
     written |-> Completed("write", failAt),
     loaded |-> Completed("load", failAt),
     checked |-> Completed("check_model", failAt)]

OnnxReturn_BeforeCheck(failAt) == Completed("write", failAt)

\* return True at the end of the try block, return False in the except block
OnnxReturn(failAt) == failAt = "none"

OnnxHandlerPc_Propagates(failAt) ==
    IF failAt = "none" THEN StepAfter("convert_to_onnx") ELSE "aborted"

\* where main() continues after the call: the except block catches Exception
OnnxHandlerPc(failAt) == StepAfter("convert_to_onnx")

\* the models directory after the try block: open(path, "wb") creates the
\* file, f.write fills it; nothing removes it
OnnxFiles(fs, failAt, cols) ==
    IF Completed("open", failAt)
    THEN Write(fs, "fraud_detection.onnx",
               [bytes |-> IF Completed("write", failAt) THEN "complete" ELSE "partial",
                n_inputs |-> Len(cols)])
    ELSE fs

(***************************************************************************)
(* Control flow of main(): a call returns, or raises and ends the run      *)
(***************************************************************************)
Return(step) ==
    /\ pc' = StepAfter(step)
    /\ done' = Append(done, step)
    /\ err' = err

\* main() has no handler: an exception of a call ends the run
Raise(step, kind) ==
    /\ pc' = "aborted"
    /\ done' = done
    /\ err' = [step |-> step, kind |-> kind]

ReadCsvRaises_Never == FALSE

\* pd.read_csv(DATA_FILE) raises FileNotFoundError when the file is missing
ReadCsvRaises == ~fileExists

(***************************************************************************)
(* The calls of main()                                                     *)
(***************************************************************************)
CreateDirs ==
    /\ pc = "create_dirs"
    /\ Return("create_dirs")
    /\ UNCHANGED <<ONNX_AVAILABLE, fileExists, csv, df, encoders,
                   feature_columns, X, y, train, test, scaler, model, y_pred,
                   metrics, files, onnx_success, onnx>>

LoadAndExploreData ==
    /\ pc = "load_and_explore_data"
    /\ IF ReadCsvRaises
       THEN Raise("load_and_explore_data", "FileNotFoundError") /\ df' = df
       ELSE IF "is_fraud" \notin csv.cols
       THEN Raise("load_and_explore_data", "KeyError") /\ df' = df
       ELSE Return("load_and_explore_data") /\ df' = csv
    /\ UNCHANGED <<ONNX_AVAILABLE, fileExists, csv, encoders, feature_columns,
                   X, y, train, test, scaler, model, y_pred, metrics, files,
                   onnx_success, onnx>>

FeatureEngineering ==
    /\ pc = "feature_engineering"
    /\ IF ~(ReadBeforeEncoderSave \subseteq df.cols)
       THEN /\ Raise("feature_engineering", "KeyError")
            /\ UNCHANGED <<df, encoders, files>>
       ELSE IF ~(ReadAfterEncoderSave \subseteq df.cols)
       THEN /\ Raise("feature_engineering", "KeyError")
            /\ files' = SaveEncoders(files, FitEncoders(df))
            /\ UNCHANGED <<df, encoders>>
       ELSE LET encs == FitEncoders(df)
            IN /\ Return("feature_engineering")
               /\ df' = [cols |-> df.cols \cup EngineeredColumns,
                         rows |-> [i \in 1..Len(df.rows) |->
                                      EngineeredRow(df.rows[i], encs)]]
               /\ encoders' = encs
               /\ files' = SaveEncoders(files, encs)
    /\ UNCHANGED <<ONNX_AVAILABLE, fileExists, csv, feature_columns, X, y,
                   train, test, scaler, model, y_pred, metrics, onnx_success,
                   onnx>>

PrepareFeatures ==
    /\ pc = "prepare_features"
    /\ Return("prepare_features")
    /\ feature_columns' = FeatureColumns
    /\ X' = FeatureMatrix(df, FeatureColumns)
    /\ y' = Column(df, "is_fraud")
    /\ UNCHANGED <<ONNX_AVAILABLE, fileExists, csv, df, encoders, train, test,
                   scaler, model, y_pred, metrics, files, onnx_success, onnx>>

TrainTestSplit ==
    /\ pc = "train_test_split"
    /\ IF SplitRaises(y)
       THEN Raise("train_test_split", "ValueError") /\ UNCHANGED <<train, test>>
       ELSE \E T \in SUBSET (1..Len(y)) :
               /\ Cardinality(T) = NTest(Len(y))
               /\ test' = T
               /\ train' = (1..Len(y)) \ T
               /\ Return("train_test_split")
    /\ UNCHANGED <<ONNX_AVAILABLE, fileExists, csv, df, encoders,
                   feature_columns, X, y, scaler, model, y_pred, metrics,
                   files, onnx_success, onnx>>

ScalerFitTransform ==
    /\ pc = "scaler_fit_transform"
    /\ Return("scaler_fit_transform")
    /\ scaler' = StandardScalerFitTransform(NewScaler, X, train)
    /\ UNCHANGED <<ONNX_AVAILABLE, fileExists, csv, df, encoders,
                   feature_columns, X, y, train, test, model, y_pred, metrics,
                   files, onnx_success, onnx>>

ScalerTransform ==
    /\ pc = "scaler_transform"
    /\ Return("scaler_transform")
    /\ scaler' = StandardScalerTransform(scaler, X, test)
    /\ UNCHANGED <<ONNX_AVAILABLE, fileExists, csv, df, encoders,
                   feature_columns, X, y, train, test, model, y_pred, metrics,
                   files, onnx_success, onnx>>

TrainModel ==
    /\ pc = "train_model"
    /\ Return("train_model")
    /\ model' = [fitted |-> TRUE, classes_ |-> Classes(y, train),
                 n_features |-> Len(feature_columns)]
    /\ UNCHANGED <<ONNX_AVAILABLE, fileExists, csv, df, encoders,
                   feature_columns, X, y, train, test, scaler, y_pred, metrics,
                   files, onnx_success, onnx>>

EvaluateModel ==
    /\ pc = "evaluate_model"
    /\ LET rows == EvaluatedRows(train, test)
       IN IF Cardinality(model.classes_) < 2
          THEN \* predict_proba(X_test)[:, 1] has no column 1
               /\ Raise("evaluate_model", "IndexError")
               /\ UNCHANGED <<y_pred, metrics, files>>
          ELSE \E pred \in [rows -> model.classes_] :
                  IF Cardinality(Classes(y, rows)) < 2
                  THEN \* classification_report with two target_names, or
                       \* roc_auc_score, on a y_test of one class
                       /\ Raise("evaluate_model", "ValueError")
                       /\ y_pred' = pred
                       /\ UNCHANGED <<metrics, files>>
                  ELSE /\ Return("evaluate_model")
                       /\ y_pred' = pred
                       /\ metrics' = Metrics(y, pred, rows)
                       /\ files' = Write(files, "feature_importance.csv",
                                         [features |-> Range(feature_columns)])
    /\ UNCHANGED <<ONNX_AVAILABLE, fileExists, csv, df, encoders,
                   feature_columns, X, y, train, test, scaler, model,
                   onnx_success, onnx>>

SaveScalerAndModel ==
    /\ pc = "save_scaler_and_model"
    /\ Return("save_scaler_and_model")
    /\ files' =
          Write(Write(Write(Write(files,
              "scaler.pkl", scaler),
              "fraud_model.pkl", model),
              "scaler_params.json", ScalerParams(scaler, feature_columns)),
              "model_metadata.json", Metadata(feature_columns, metrics))
    /\ UNCHANGED <<ONNX_AVAILABLE, fileExists, csv, df, encoders,
                   feature_columns, X, y, train, test, scaler, model, y_pred,
                   metrics, onnx_success, onnx>>

ConvertToOnnx ==
    /\ pc = "convert_to_onnx"
    /\ IF ~ONNX_AVAILABLE
       THEN /\ onnx_success' = FALSE
            /\ pc' = StepAfter("convert_to_onnx")
            /\ UNCHANGED <<files, onnx>>
       ELSE \E failAt \in Range(OnnxCalls) \cup {"none"} :
               /\ onnx' = OnnxProgress(failAt)
               /\ files' = OnnxFiles(files, failAt, feature_columns)
               /\ onnx_success' = OnnxReturn(failAt)
               /\ pc' = OnnxHandlerPc(failAt)
    /\ done' = Append(done, "convert_to_onnx")
    /\ UNCHANGED <<ONNX_AVAILABLE, fileExists, csv, err, df, encoders,
                   feature_columns, X, y, train, test, scaler, model, y_pred,
                   metrics>>

Summary ==
    /\ pc = "summary"
    /\ Return("summary")
    /\ UNCHANGED <<ONNX_AVAILABLE, fileExists, csv, df, encoders,
                   feature_columns, X, y, train, test, scaler, model, y_pred,
                   metrics, files, onnx_success, onnx>>

(***************************************************************************)
(* Inputs                                                                  *)
(***************************************************************************)
TransactionTypes == <<"ATM", "ONLINE", "POS">>
MerchantCategories == <<"FOOD", "TRAVEL">>
Countries == <<"FR", "TN">>

Row(a, h, tt, mc, co, dr, ir, f) ==
    ("amount" :> a) @@ ("hour" :> h) @@ ("transaction_type" :> tt) @@
    ("merchant_category" :> mc) @@ ("country" :> co) @@
    ("device_risk_score" :> dr) @@ ("ip_risk_score" :> ir) @@ ("is_fraud" :> f)

\* a file that lacks the columns of missing
CsvFile(rows, missing) ==
    [cols |-> RequiredColumns \ missing,
     rows |-> [i \in 1..Len(rows) |->
                  [c \in RequiredColumns \ missing |-> rows[i][c]]]]

\* Pipeline inputs: a row is fixed by its amount and its label.  No call
\* depends on the order of the rows except the split, which is any subset,
\* so the tables are enumerated up to the order of their rows.
PipelineRow(a, f) ==
    Row(a, (3 + 9 * a) % 24, TransactionTypes[(a % 3) + 1],
        MerchantCategories[f + 1], "TN", 20 + 60 * f, 10 + 40 * (a % 3), f)

\* the amounts of the pipeline inputs
Amounts == 0..1

\* a row identifier: 2 * amount + label
RowIds == {2 * a + f : a \in Amounts, f \in {0, 1}}

PipelineTables ==
    {[i \in 1..NRows |-> PipelineRow(s[i] \div 2, s[i] % 2)] :
        s \in {t \in [1..NRows -> RowIds] : \A i \in 1..(NRows - 1) : t[i] <= t[i + 1]}}

MissingChoices == {m \in SUBSET RequiredColumns : Cardinality(m) <= MaxMissing}

Unset ==
    /\ pc = "create_dirs"
    /\ done = <<>>
    /\ err = NoError
    /\ df = EmptyTable
    /\ encoders = <<>>
    /\ feature_columns = <<>>
    /\ X = <<>>
    /\ y = <<>>
    /\ train = {}
    /\ test = {}
    /\ scaler = NewScaler
    /\ model = [fitted |-> FALSE, classes_ |-> {}, n_features |-> 0]
    /\ y_pred = <<>>
    /\ metrics = NoMetrics
    /\ files = <<>>
    /\ onnx_success = FALSE
    /\ onnx = NoOnnx

Init ==
    /\ ONNX_AVAILABLE \in BOOLEAN
    /\ fileExists \in BOOLEAN
    /\ IF fileExists
       THEN \E rows \in PipelineTables, missing \in MissingChoices :
               csv = CsvFile(rows, missing)
       ELSE csv = EmptyTable
    /\ Unset

Next ==
    \/ CreateDirs
    \/ LoadAndExploreData
    \/ FeatureEngineering
    \/ PrepareFeatures
    \/ TrainTestSplit
    \/ ScalerFitTransform
    \/ ScalerTransform
    \/ TrainModel
    \/ EvaluateModel
    \/ SaveScalerAndModel
    \/ ConvertToOnnx
    \/ Summary

Spec == Init /\ [][Next]_vars

(***************************************************************************)
(* Feature engineering on its own: tables whose hours cover every hour of  *)
(* the day and the values next to it, and tables whose categories vary.    *)
(***************************************************************************)
HourDomain == (0 - 1)..24

HourTables ==
    [1..FeatRows -> {Row(1, h, "POS", "FOOD", "TN", 20, 50, 0) : h \in HourDomain}]

CategoryTables ==
    [1..FeatRows ->
        {Row(1, 12, tt, mc, co, 20, 50, 0) :
            tt \in Range(TransactionTypes), mc \in Range(MerchantCategories),
            co \in Range(Countries)}]

InitFeat ==
    /\ ONNX_AVAILABLE = TRUE
    /\ fileExists = TRUE
    /\ \E rows \in HourTables \cup CategoryTables : csv = CsvFile(rows, {})
    /\ Unset

NextFeat ==
    \/ CreateDirs
    \/ LoadAndExploreData
    \/ FeatureEngineering

SpecFeat == InitFeat /\ [][NextFeat]_vars

(***************************************************************************)
(* Properties                                                              *)
(***************************************************************************)
Did(step) == step \in Range(done)

Wrote(path) == path \in DOMAIN files

OnnxFile == "fraud_detection.onnx"

\* C1: once model_metadata.json is written, its feature_names is the list
\* prepare_features returned, element for element, and column k of the
\* training matrix X is the table column that feature_names[k] names.
C1_MetadataFeatureOrder ==
    Wrote("model_metadata.json") =>
        LET names == files["model_metadata.json"].feature_names
        IN /\ names = feature_columns
           /\ files["model_metadata.json"].n_features = Len(names)
           /\ \A i \in 1..Len(X) :
                 /\ Len(X[i]) = Len(names)
                 /\ \A k \in 1..Len(names) : X[i][k] = df.rows[i][names[k]]

C1_Witness ==
    /\ pc = "done"
    /\ Wrote("model_metadata.json")
    /\ Len(files["model_metadata.json"].feature_names) = 16
    /\ \E i \in 1..Len(X) : X[i][1] # X[i][16]

\* C2: after convert_to_onnx returned False (library unavailable, or any call
\* of its try block raised) the run has not aborted: main() is at or past its
\* summary, no exception is recorded, and the four files save_scaler_and_model
\* wrote are still there with the content it gave them.
C2_OnnxFailureIsContained ==
    (Did("convert_to_onnx") /\ ~onnx_success) =>
        /\ pc \in {"summary", "done"}
        /\ err = NoError
        /\ ExporterFiles \subseteq DOMAIN files
        /\ files["scaler.pkl"] = scaler
        /\ files["fraud_model.pkl"] = model
        /\ files["scaler_params.json"] = ScalerParams(scaler, feature_columns)
        /\ files["model_metadata.json"] = Metadata(feature_columns, metrics)

C2_Witness ==
    /\ pc = "done"
    /\ ONNX_AVAILABLE
    /\ ~onnx_success
    /\ onnx.loaded
    /\ ~onnx.checked
    /\ ExporterFiles \subseteq DOMAIN files

\* C3: convert_to_onnx returns True exactly when the conversion, the write of
\* the file, its load from disk and the checker all completed; then the file
\* is on disk in full.  Before the call, and on every other path, the value
\* is False.
C3_SuccessOnlyAfterValidation ==
    /\ ~Did("convert_to_onnx") => ~onnx_success
    /\ Did("convert_to_onnx") =>
          /\ onnx_success <=>
                (onnx.converted /\ onnx.written /\ onnx.loaded /\ onnx.checked)
          /\ onnx_success =>
                (Wrote(OnnxFile) /\ files[OnnxFile].bytes = "complete")

C3_Witness ==
    /\ pc = "done"
    /\ onnx_success
    /\ onnx.checked
    /\ Wrote(OnnxFile)

\* the input has a hard failure: no file, or a required column is missing
HardFailure == ~fileExists \/ csv.cols # RequiredColumns

\* the call that meets the hard failure first
FailStep ==
    IF ~fileExists \/ "is_fraud" \notin csv.cols
    THEN "load_and_explore_data"
    ELSE "feature_engineering"

FailKind == IF ~fileExists THEN "FileNotFoundError" ELSE "KeyError"

\* C4: with a missing input file or a missing required column the run never
\* gets past the call that meets the failure: it ends there with that
\* exception, the calls that returned are exactly the earlier ones, and no
\* scaler, model, scaler-parameter, metadata or ONNX file is written.
C4_HardFailureAborts ==
    HardFailure =>
        /\ pc = "aborted" \/ StepIndex(pc) <= StepIndex(FailStep)
        /\ pc = "aborted" =>
              /\ err = [step |-> FailStep, kind |-> FailKind]
              /\ done = SubSeq(Steps, 1, StepIndex(FailStep) - 1)
        /\ DOMAIN files \cap (ExporterFiles \cup {OnnxFile}) = {}

C4_Witness ==
    /\ pc = "aborted"
    /\ fileExists
    /\ "device_risk_score" \notin csv.cols
    /\ err.step = "feature_engineering"

\* C5 as stated: no file is written before evaluate_model has returned.
C5_NoFileBeforeEvaluation ==
    DOMAIN files # {} => Did("evaluate_model")

\* C5, amended: the scaler, model, scaler-parameter and metadata files are
\* written by save_scaler_and_model, after train_model and evaluate_model
\* returned, so a run that ends earlier leaves none of them; the encoder
\* files are written by feature_engineering, which no file precedes, and are
\* on disk whenever it has returned.
C5_ExporterFilesAfterEvaluation ==
    /\ DOMAIN files \cap ExporterFiles # {} =>
          Did("train_model") /\ Did("evaluate_model") /\ Did("save_scaler_and_model")
    /\ Did("save_scaler_and_model") => ExporterFiles \subseteq DOMAIN files
    /\ Did("feature_engineering") => EncoderFiles \subseteq DOMAIN files
    /\ DOMAIN files # {} => Did("load_and_explore_data")
    /\ (pc = "aborted" /\ DOMAIN files # {}) => DOMAIN files = EncoderFiles

C5_Witness ==
    /\ pc = "aborted"
    /\ DOMAIN files = EncoderFiles
    /\ ~Did("evaluate_model")

\* C6: from the fit on, the scaler's means and scales are those of the
\* training rows: transforming the test rows, training, evaluation and export
\* leave them as fitted, and scaler.pkl and scaler_params.json hold them.
C6_ScalerFitOnTrainOnly ==
    /\ scaler.fitted <=> Did("scaler_fit_transform")
    /\ scaler.fitted =>
          LET q == FitParams(X, train)
          IN /\ scaler = q
             /\ Wrote("scaler.pkl") => files["scaler.pkl"] = q
             /\ Wrote("scaler_params.json") =>
                   files["scaler_params.json"] =
                       [means |-> q.mean_, stds |-> q.scale_,
                        n_features |-> Len(feature_columns)]
    /\ (Wrote("scaler.pkl") \/ Wrote("scaler_params.json")) => scaler.fitted

C6_Witness ==
    /\ pc = "done"
    /\ Wrote("scaler_params.json")
    /\ FitParams(X, test).mean_ # scaler.mean_
    /\ FitParams(X, test).scale_ # scaler.scale_
    /\ FitParams(X, DOMAIN X).mean_ # scaler.mean_

\* C7: after feature_engineering, for each categorical column with k distinct
\* strings, the encoder has k classes, encoding maps the observed strings
\* onto 0..k-1, decoding an encoded observed string gives it back, the
\* encoded column holds these indices, and encoding a string that was not
\* observed raises ValueError.
C7_EncoderBijection ==
    Did("feature_engineering") =>
        \A c \in Range(CategoricalColumns) :
            LET classes == encoders[c]
                observed == Range(Column(csv, c))
                k == Cardinality(observed)
                enc(s) == LabelEncoderTransform(classes, s)
            IN /\ Len(classes) = k
               /\ {enc(s).value : s \in observed} = 0..(k - 1)
               /\ \A s \in observed :
                     enc(s).raised = "" /\ LabelEncoderInverse(classes, enc(s).value) = s
               /\ \A i \in 1..Len(df.rows) :
                     df.rows[i][c \o "_encoded"] = enc(csv.rows[i][c]).value
               /\ \A s \in Range(Alphabet) \ observed : enc(s).raised = "ValueError"

C7_Witness ==
    /\ Did("feature_engineering")
    /\ csv.rows[1]["transaction_type"] = "POS"
    /\ csv.rows[2]["transaction_type"] = "ATM"
    /\ encoders["transaction_type"] = <<"ATM", "POS">>
    /\ df.rows[1]["transaction_type_encoded"] = 1

\* C8: after feature_engineering, every row whose hour is in 0..23 has
\* is_night = 1 exactly when hour <= 6 or hour >= 22 and is_business_hours = 1
\* exactly when 9 <= hour <= 17, both flags are 0 or 1, and never both 1.
C8_HourFlags ==
    Did("feature_engineering") =>
        \A i \in 1..Len(df.rows) :
            LET h == csv.rows[i]["hour"]
                night == df.rows[i]["is_night"]
                business == df.rows[i]["is_business_hours"]
            IN h \in 0..23 =>
                  /\ night \in {0, 1}
                  /\ business \in {0, 1}
                  /\ night = 1 <=> (h <= 6 \/ h >= 22)
                  /\ business = 1 <=> (9 <= h /\ h <= 17)
                  /\ ~(night = 1 /\ business = 1)

C8_Witness ==
    /\ Did("feature_engineering")
    /\ csv.rows[1]["hour"] = 6
    /\ df.rows[1]["is_night"] = 1
    /\ csv.rows[2]["hour"] = 17
    /\ df.rows[2]["is_business_hours"] = 1

\* C9: once evaluate_model returned, the four entries of the confusion matrix
\* in the metrics sum to the size of the test partition the split produced,
\* entry [i][j] counts the test rows of true label i and predicted label j,
\* and model_metadata.json records the same matrix.
C9_ConfusionMatrixCountsTestRows ==
    Did("evaluate_model") =>
        LET cm == metrics.confusion_matrix
        IN /\ cm[0][0] + cm[0][1] + cm[1][0] + cm[1][1] = Cardinality(test)
           /\ Cardinality(test) = NTest(Len(y))
           /\ \A i \in {0, 1}, j \in {0, 1} :
                 cm[i][j] = Cardinality({t \in test : y[t] = i /\ y_pred[t] = j})
           /\ Wrote("model_metadata.json") =>
                 files["model_metadata.json"].metrics.confusion_matrix = cm

C9_Witness ==
    /\ pc = "done"
    /\ Wrote("model_metadata.json")
    /\ metrics.confusion_matrix[0][1] = 1
    /\ metrics.confusion_matrix[1][0] = 1
    /\ Cardinality(test) = 2

\* C10: after convert_to_onnx returned False the run has left no
\* fraud_detection.onnx of its own, and a fraud_detection.onnx written by the
\* run is there only if it passed the checker and the call returned True.
C10_NoOnnxFileAfterFailure ==
    /\ (Did("convert_to_onnx") /\ ~onnx_success) => ~Wrote(OnnxFile)
    /\ (Did("convert_to_onnx") /\ Wrote(OnnxFile)) => (onnx.checked /\ onnx_success)

====
